---------------------------- MODULE Spec2Model ----------------------------
(***************************************************************************)
(* Scheduler of node-sqlite3: one connection (Database) with its queue,    *)
(* its statements (Statement) with their queues, and the operations that   *)
(* were dispatched to the thread pool and have not completed yet.          *)
(*                                                                         *)
(* Every operation submitted by the client gets an id, its position in     *)
(* `calls`.  A statement is named by the id of the prepare that created    *)
(* it.  All handlers run on the event loop, one at a time; a handler is    *)
(* one action.  User callbacks are recorded in `log` and are taken not to  *)
(* call back into the API.                                                 *)
(***************************************************************************)
EXTENDS Integers, Sequences, FiniteSets, TLC

\* Bound of the model: the number of operations the client submits.
MaxOps == 3

\* Bound of SpecStatement: the number of operations of the one statement, its
\* prepare included.
MaxStmtOps == 4

\* Bound of SpecEach: the number of rows sqlite3_step yields at most.
MaxRows == 2

\* Bound of SpecMode: the nesting of Serialize and Parallelize callbacks.
MaxDepth == 2

\* Operations submitted to the connection through Database::Schedule with
\* exclusive = true (database.cc 216, 506, 577, 610).  "exec" stands for exec
\* and loadExtension: Work_BeginLoadExtension and Work_AfterLoadExtension are
\* Work_BeginExec and Work_AfterExec line for line, but for the engine call.
ExclusiveKinds == {"exec", "close", "wait"}

\* Exclusive operations that go to the thread pool (uv_queue_work).
PoolExclusiveKinds == {"exec", "close"}

\* Operations submitted to the connection (a prepare is submitted by
\* Statement::New, a configure item by Database::Configure).
DbKinds == ExclusiveKinds \cup {"prepare", "configure"}

\* Operations submitted to a statement through Statement::Schedule.  "run"
\* stands for bind, get, run, all and reset, which share STATEMENT_BEGIN and
\* STATEMENT_END and differ only in the engine call.
StmtKinds == {"run", "finalize"}

VARIABLES
    open,       \* Database::open
    locked,     \* Database::locked
    pending,    \* Database::pending
    serialize,  \* Database::serialize
    queue,      \* Database::queue, a sequence of operation ids
    calls,      \* every operation submitted so far, by id
    stmts,      \* the statements, by the id of their prepare
    log,        \* callbacks invoked and error events emitted, in order
    opening,    \* the open started by Database::New: "inflight", "ok", "failed"
    drained,    \* history: the handler that ran last called Database::Process
    each,       \* the each operation followed by SpecEach: its worker
                \* (Work_Each), its Async and its consumer (AsyncEach)
    twin,       \* SpecEquiv: a second connection, in parallelize mode, that
                \* is given every submission as exclusive
    handle,     \* SpecHandle: the native handle (_handle) and the closes
                \* whose Work_Close has run on its worker thread
    frames      \* SpecMode: the calls of Serialize and Parallelize whose
                \* callback is running, innermost last

vars ==
    <<open, locked, pending, serialize, queue, calls, stmts, log, opening,
      drained, each, twin, handle, frames>>

\* The state of the connection and of its statements.
schedVars ==
    <<open, locked, pending, serialize, queue, calls, stmts, log, opening,
      drained, twin, handle, frames>>

\* The scheduler state as one value, threaded through the handlers; at the
\* entry of a handler Database::Process has not been called yet.
State ==
    [open |-> open, locked |-> locked, pending |-> pending,
     serialize |-> serialize, queue |-> queue, calls |-> calls,
     stmts |-> stmts, log |-> log, drained |-> FALSE]

Commit(S) ==
    /\ open' = S.open
    /\ locked' = S.locked
    /\ pending' = S.pending
    /\ serialize' = S.serialize
    /\ queue' = S.queue
    /\ calls' = S.calls
    /\ stmts' = S.stmts
    /\ log' = S.log
    /\ drained' = S.drained

\* A Baton with its Call: what was submitted, and what became of it.
\*   excl  the Call's exclusive flag, set when it is queued
\*   st    "queued" (connection queue), "squeued" (statement queue),
\*         "inflight" (on the thread pool), "done", "failed" (resolved by the
\*         scheduler with an error), "dropped" (deleted without a report)
\* The last four fields are history, read by no handler:
\*   qpend Database::pending when the Call was put in the connection queue
\*         (-1: it never was)
\*   pend, lck, opn  Database::pending, locked and open at the moment the
\*         work function was invoked (pend = -1: it never was)
NewCall(kind, cb, stmt) ==
    [kind |-> kind, cb |-> cb, stmt |-> stmt, excl |-> FALSE,
     st |-> "new", qpend |-> -1,
     pend |-> -1, lck |-> FALSE, opn |-> FALSE]

\* Statement(db): statement.h is not part of the sources; locked starts true,
\* which is what STATEMENT_END's assert(stmt->locked) requires of a prepare.
NewStatement ==
    [prepared |-> FALSE, finalized |-> FALSE, locked |-> TRUE, queue |-> <<>>,
     nfin |-> 0]

\* A log entry: operation op (0: none) was reported err through its callback
\* (ch = "cb") or through an error event (ch = "event") emitted on the
\* connection (on = 0) or on statement `on`.  err is "ok", "failed" (the
\* engine call failed), "closed" (Schedule: "Database is closed"),
\* "handle_closed" (Process: "Database handle is closed") or "finalized"
\* ("Statement is already finalized").
Entry(op, ch, err, on) == [op |-> op, ch |-> ch, err |-> err, on |-> on]

\* TRY_CATCH_CALL of a baton's callback.
CallCb(S, id, err) ==
    [S EXCEPT !.log = Append(@, Entry(id, "cb", err, 0))]

\* EMIT_EVENT(handle(), "error") on the connection (on = 0) or a statement.
EmitError(S, id, err, on) ==
    [S EXCEPT !.log = Append(@, Entry(id, "event", err, on))]

\* The callback when the baton has one, an error event on the connection
\* otherwise.
ReportDb(S, id, err) ==
    IF S.calls[id].cb THEN CallCb(S, id, err) ELSE EmitError(S, id, err, 0)

\* Statement::Error.
Error(S, id) ==
    IF S.calls[id].cb THEN CallCb(S, id, "failed")
    ELSE EmitError(S, id, "failed", S.calls[id].stmt)

SetSt(S, id, st) == [S EXCEPT !.calls[id].st = st]

\* The work function of the operation is entered: the operation is in flight
\* (uv_queue_work) until its handler says otherwise, and the history fields
\* keep what the work function's asserts read.
Dispatch(S, id) ==
    [S EXCEPT !.calls[id].st = "inflight",
              !.calls[id].pend = S.pending,
              !.calls[id].lck = S.locked,
              !.calls[id].opn = S.open]


-----------------------------------------------------------------------------
\* Queue cleaning, shared by Database::Process (closed connection) and
\* Statement::CleanQueue: every queued item is removed without running; an
\* item that has a callback gets the error.
RECURSIVE FailAll(_, _, _)
FailAll(S, q, err) ==
    IF q = <<>> THEN S
    ELSE LET id == Head(q)
             S1 == IF S.calls[id].cb THEN CallCb(S, id, err) ELSE S
         IN  FailAll(SetSt(S1, id, "failed"), Tail(q), err)

\* Deletes the items of a queue without any report.
RECURSIVE DropAll(_, _)
DropAll(S, q) ==
    IF q = <<>> THEN S ELSE DropAll(SetSt(S, Head(q), "dropped"), Tail(q))

\* `called` after the loop: some queued item had a callback.
AnyCallback(S, q) == \E i \in 1..Len(q) : S.calls[q[i]].cb

\* The queued items are failed whether or not the statement was prepared.
MutCleanQueueUnprepared(S, s) ==
    LET q == S.stmts[s].queue
        S0 == [S EXCEPT !.stmts[s].queue = <<>>]
    IN  IF q # <<>>
        THEN LET S1 == FailAll(S0, q, "finalized")
             IN  IF AnyCallback(S, q) THEN S1
                 ELSE EmitError(S1, 0, "finalized", s)
        ELSE S0

\* The error event is emitted whether or not a callback was called.
MutCleanQueue(S, s) ==
    LET q == S.stmts[s].queue
        S0 == [S EXCEPT !.stmts[s].queue = <<>>]
    IN  IF S.stmts[s].prepared /\ q # <<>>
        THEN EmitError(FailAll(S0, q, "finalized"), 0, "finalized", s)
        ELSE DropAll(S0, q)

\* Statement::CleanQueue
CleanQueue(S, s) ==
    LET q == S.stmts[s].queue
        S0 == [S EXCEPT !.stmts[s].queue = <<>>]
    IN  IF S.stmts[s].prepared /\ q # <<>>
        THEN LET S1 == FailAll(S0, q, "finalized")
             IN  IF AnyCallback(S, q) THEN S1
                 ELSE EmitError(S1, 0, "finalized", s)
        ELSE DropAll(S0, q)

\* The queue is left as it is.
MutFinalizeStmt(S, s) ==
    [S EXCEPT !.stmts[s].finalized = TRUE, !.stmts[s].nfin = @ + 1]

\* Statement::Finalize()
FinalizeStmt(S, s) ==
    CleanQueue([S EXCEPT !.stmts[s].finalized = TRUE,
                         !.stmts[s].nfin = @ + 1], s)

\* The operation is started without taking the statement's lock.
MutStatementBegin(S, id) == [Dispatch(S, id) EXCEPT !.pending = @ + 1]

\* STATEMENT_BEGIN: Work_BeginBind, Work_BeginGet, Work_BeginRun,
\* Work_BeginAll, Work_BeginReset
StatementBegin(S, id) ==
    LET s == S.calls[id].stmt
        S1 == Dispatch(S, id)
    IN  [S1 EXCEPT !.stmts[s].locked = TRUE, !.pending = @ + 1]

\* Process: the closed-connection branch fails the queue.
DrainClosed(S) ==
    LET q == S.queue
        S1 == FailAll([S EXCEPT !.queue = <<>>], q, "handle_closed")
    IN  IF AnyCallback(S, q) THEN S1 ELSE EmitError(S1, 0, "handle_closed", 0)

\* Database::Process, line 33: the connection is closed for good.
ProcessClosed(S) == ~S.open /\ S.locked /\ S.queue # <<>>

\* Database::Process, line 62: the loop condition.
ProcessMayRun(S) == S.open /\ (~S.locked \/ S.pending = 0) /\ S.queue # <<>>

\* The head waits only while two or more operations are in flight.
MutProcessHeadWaits(S, id) == S.calls[id].excl /\ S.pending > 1

\* Database::Process, line 65: the head has to wait.
ProcessHeadWaits(S, id) == S.calls[id].excl /\ S.pending > 0

RECURSIVE Start(_, _)
RECURSIVE Process(_)
RECURSIVE ProcessLoop(_)
RECURSIVE StmtProcessLoop(_, _)

\* The statement queue is left as it is unless the statement is finalized.
MutStmtProcess(S, s) ==
    IF S.stmts[s].finalized /\ S.stmts[s].queue # <<>>
    THEN CleanQueue(S, s)
    ELSE S

\* Statement::Process
StmtProcess(S, s) ==
    IF S.stmts[s].finalized /\ S.stmts[s].queue # <<>>
    THEN CleanQueue(S, s)
    ELSE StmtProcessLoop(S, s)

StmtProcessLoop(S, s) ==
    IF S.stmts[s].prepared /\ ~S.stmts[s].locked /\ S.stmts[s].queue # <<>>
    THEN LET id == Head(S.stmts[s].queue)
         IN  StmtProcessLoop(
                 Start([S EXCEPT !.stmts[s].queue = Tail(@)], id), s)
    ELSE S

\* Database::Work_BeginExec, Work_BeginLoadExtension, Work_BeginClose: the
\* operation goes to the thread pool.
Work_BeginExec(S, id) == Dispatch(S, id)

\* Database::Work_Wait: the callback, then a drain.
Work_Wait(S, id) ==
    LET S1 == SetSt(Dispatch(S, id), id, "done")
    IN  Process(IF S.calls[id].cb THEN CallCb(S1, id, "ok") ELSE S1)

\* The operation is not counted in pending.
MutWork_BeginPrepare(S, id) == Dispatch(S, id)

\* Statement::Work_BeginPrepare
Work_BeginPrepare(S, id) == [Dispatch(S, id) EXCEPT !.pending = @ + 1]

\* Database::SetBusyTimeout, RegisterTraceCallback, RegisterProfileCallback:
\* run on the event loop, nothing is dispatched.
SetBusyTimeout(S, id) == SetSt(Dispatch(S, id), id, "done")

\* Statement::Finalize(Baton*)
FinalizeBaton(S, id) ==
    LET S1 == FinalizeStmt(SetSt(Dispatch(S, id), id, "done"), S.calls[id].stmt)
    IN  IF S.calls[id].cb THEN CallCb(S1, id, "ok") ELSE S1

\* call->callback(call->baton): the work function of the operation.
Start(S, id) ==
    LET kind == S.calls[id].kind IN
    CASE kind \in PoolExclusiveKinds -> Work_BeginExec(S, id)
      [] kind = "wait" -> Work_Wait(S, id)
      [] kind = "prepare" -> Work_BeginPrepare(S, id)
      [] kind = "configure" -> SetBusyTimeout(S, id)
      [] kind = "run" -> StatementBegin(S, id)
      [] kind = "finalize" -> FinalizeBaton(S, id)

\* Database::Process
Process(S) ==
    LET S0 == [S EXCEPT !.drained = TRUE]
    IN  IF ProcessClosed(S0) THEN DrainClosed(S0) ELSE ProcessLoop(S0)

\* The drain takes the exclusivity of the head from the mode in force.
MutProcessLoop(S) ==
    IF ProcessMayRun(S)
    THEN LET id == Head(S.queue)
             exclusive == S.calls[id].kind \in ExclusiveKinds \/ S.serialize
         IN  IF exclusive /\ S.pending > 0 THEN S
             ELSE LET S1 == Start([S EXCEPT !.queue = Tail(@),
                                            !.locked = exclusive], id)
                  IN  IF S1.locked THEN S1 ELSE ProcessLoop(S1)
    ELSE S

ProcessLoop(S) ==
    IF ProcessMayRun(S)
    THEN LET id == Head(S.queue)
         IN  IF ProcessHeadWaits(S, id) THEN S
             ELSE LET S1 == Start([S EXCEPT !.queue = Tail(@),
                                            !.locked = S.calls[id].excl], id)
                  IN  IF S1.locked THEN S1 ELSE ProcessLoop(S1)
    ELSE S

\* The closed test of Process (line 33) used in Schedule.
MutScheduleRejects(S) == ~S.open /\ S.locked /\ S.queue # <<>>

\* Database::Schedule, line 81: the connection is closed for good.
ScheduleRejects(S) == ~S.open /\ S.locked

\* The item is queued behind anything that is in flight.
MutScheduleQueues(S, exclusive) == ~S.open \/ S.pending > 0

\* Database::Schedule, line 95: the item is queued.
ScheduleQueues(S, exclusive) ==
    ~S.open \/ ((S.locked \/ exclusive \/ S.serialize) /\ S.pending > 0)

\* A queued item is put in front of the queue.
MutSchedule(S, id, exclusive) ==
    IF ScheduleRejects(S)
    THEN ReportDb(SetSt(S, id, "failed"), id, "closed")
    ELSE IF ScheduleQueues(S, exclusive)
    THEN [S EXCEPT !.queue = <<id>> \o @,
                   !.calls[id].st = "queued",
                   !.calls[id].qpend = S.pending,
                   !.calls[id].excl = exclusive \/ S.serialize]
    ELSE Start([S EXCEPT !.locked = exclusive], id)

\* An item run at once leaves locked as it was.
MutScheduleKeepsLocked(S, id, exclusive) ==
    IF ScheduleRejects(S)
    THEN ReportDb(SetSt(S, id, "failed"), id, "closed")
    ELSE IF ScheduleQueues(S, exclusive)
    THEN [S EXCEPT !.queue = Append(@, id),
                   !.calls[id].st = "queued",
                   !.calls[id].qpend = S.pending,
                   !.calls[id].excl = exclusive \/ S.serialize]
    ELSE Start(S, id)

\* Database::Schedule
Schedule(S, id, exclusive) ==
    IF ScheduleRejects(S)
    THEN ReportDb(SetSt(S, id, "failed"), id, "closed")
    ELSE IF ScheduleQueues(S, exclusive)
    THEN [S EXCEPT !.queue = Append(@, id),
                   !.calls[id].st = "queued",
                   !.calls[id].qpend = S.pending,
                   !.calls[id].excl = exclusive \/ S.serialize]
    ELSE Start([S EXCEPT !.locked = exclusive], id)

\* A finalized statement is treated as any other.
MutStmtScheduleFinalized(S, id) ==
    LET s == S.calls[id].stmt
        pushed == [S EXCEPT !.stmts[s].queue = Append(@, id),
                            !.calls[id].st = "squeued"]
    IN  IF ~S.stmts[s].prepared \/ S.stmts[s].locked THEN pushed
        ELSE Start(S, id)

\* An operation is started on any statement that is not finalized.
MutStmtSchedule(S, id) ==
    LET s == S.calls[id].stmt
        pushed == [S EXCEPT !.stmts[s].queue = Append(@, id),
                            !.calls[id].st = "squeued"]
    IN  IF S.stmts[s].finalized THEN CleanQueue(pushed, s) ELSE Start(S, id)

\* A finalize is run at once, whatever the statement is doing.
MutStmtScheduleFinalizeNow(S, id) ==
    LET s == S.calls[id].stmt
        pushed == [S EXCEPT !.stmts[s].queue = Append(@, id),
                            !.calls[id].st = "squeued"]
    IN  IF S.stmts[s].finalized THEN CleanQueue(pushed, s)
        ELSE IF S.calls[id].kind = "finalize" /\ S.stmts[s].prepared
        THEN Start(S, id)
        ELSE IF ~S.stmts[s].prepared \/ S.stmts[s].locked THEN pushed
        ELSE Start(S, id)

\* Statement::Schedule
StmtSchedule(S, id) ==
    LET s == S.calls[id].stmt
        pushed == [S EXCEPT !.stmts[s].queue = Append(@, id),
                            !.calls[id].st = "squeued"]
    IN  IF S.stmts[s].finalized THEN CleanQueue(pushed, s)
        ELSE IF ~S.stmts[s].prepared \/ S.stmts[s].locked THEN pushed
        ELSE Start(S, id)

\* The connection queue is drained before the statement queue.
MutStatementEnd(S, id) ==
    LET s == S.calls[id].stmt
        S1 == [S EXCEPT !.stmts[s].locked = FALSE, !.pending = @ - 1,
                        !.calls[id].st = "done"]
    IN  StmtProcess(Process(S1), s)

\* STATEMENT_END
StatementEnd(S, id) ==
    LET s == S.calls[id].stmt
        S1 == [S EXCEPT !.stmts[s].locked = FALSE, !.pending = @ - 1,
                        !.calls[id].st = "done"]
    IN  Process(StmtProcess(S1, s))

-----------------------------------------------------------------------------
\* A connection as Database() leaves it; also the value of twin where no
\* second connection is followed.
NoTwin ==
    [open |-> FALSE, locked |-> FALSE, pending |-> 0, serialize |-> FALSE,
     queue |-> <<>>, calls |-> <<>>, stmts |-> <<>>, log |-> <<>>,
     drained |-> FALSE]

\* The native handle where it is not followed: set, no close at work.
\*   set  _handle is not NULL
\*   ok, failed  the closes in flight whose Work_Close has returned, by status
NoHandle == [set |-> TRUE, ok |-> {}, failed |-> {}]

\* No callback of Serialize or Parallelize is running.
\*   stack  the local `before` of each call in progress, innermost last
\*   depth  history: the deepest nesting so far
NoFrames == [stack |-> <<>>, depth |-> 0]

\* No each operation is followed.
\*   wpc   position of the worker: "none", "step" (at sqlite3_step), "send"
\*         (the row is in the buffer, uv_async_send is next), "lastsend"
\*         (completed is set, uv_async_send is next), "exit" (Work_Each has
\*         returned), "finished" (Work_AfterEach has run)
\*         A worker at "push" holds the mutex and has a row to push.
\*   cpc   position of the consumer: "idle", "lock" (inside AsyncEach, at the
\*         lock of the mutex), "swap" (holding the mutex), "check" (at the
\*         test of completed)
\*   mutex  async->mutex: "free", or held by "worker" or by "consumer"
\*   data, completed, retrieved  fields of the Async; rows are numbered from 1
\*   wake  the watcher is pending (uv_async_send coalesces)
\*   closed, freed  uv_close was called; CloseCallback has deleted the Async
\*   status  stmt->status: "row", "done" or "error"
\*   donecb  a completed callback was given
\*   crashed  a use of the deleted Async has brought the process down
\* History, read by no handler:
\*   produced  rows pushed; delivered  rows passed to the item callback;
\*   batches  sizes of the non-empty swaps; fired  the calls of the completed
\*   callback; sentClosed  uv_async_send was called after uv_close;
\*   cbHeld  a callback was invoked by AsyncEach while it held the mutex
NoEach ==
    [wpc |-> "none", cpc |-> "idle", mutex |-> "free", data |-> <<>>,
     completed |-> FALSE, retrieved |-> 0, wake |-> FALSE, closed |-> FALSE,
     freed |-> FALSE, status |-> "row", donecb |-> FALSE, crashed |-> FALSE,
     produced |-> 0, delivered |-> <<>>, batches |-> <<>>, fired |-> <<>>,
     sentClosed |-> FALSE, cbHeld |-> FALSE]

\* Database(): the fields as the constructor sets them (database.h 102-111),
\* and the open that Database::New has put on the thread pool.
Init ==
    /\ open = FALSE
    /\ locked = FALSE
    /\ pending = 0
    /\ serialize = FALSE
    /\ queue = <<>>
    /\ calls = <<>>
    /\ stmts = <<>>
    /\ log = <<>>
    /\ opening = "inflight"
    /\ drained = FALSE
    /\ each = NoEach
    /\ twin = NoTwin
    /\ handle = NoHandle
    /\ frames = NoFrames

\* S with one more baton, not scheduled yet.
AddCall(S, kind, cb, stmt) ==
    [S EXCEPT !.calls = Append(@, NewCall(kind, cb, stmt))]

\* The state with one more baton, not scheduled yet.
WithCall(kind, cb, stmt) == AddCall(State, kind, cb, stmt)

NextId == Len(calls) + 1

\* A method of the connection that schedules a baton with Database::Schedule:
\* Exec, LoadExtension, Close, Wait, Configure (no callback, a drain follows)
\* and Statement::New (a new statement, whose prepare is scheduled).
Submit(S, kind, cb, exclusive) ==
    LET n == Len(S.calls) + 1
        S0 == AddCall(S, kind, cb, IF kind = "prepare" THEN n ELSE 0)
        S1 == IF kind = "prepare"
              THEN [S0 EXCEPT !.stmts = @ @@ (n :> NewStatement)]
              ELSE S0
        S2 == Schedule(S1, n, exclusive)
    IN  IF kind = "configure" THEN Process(S2) ELSE S2

\* A method of statement s that schedules a baton with Statement::Schedule.
StmtSubmit(S, kind, cb, s) ==
    StmtSchedule(AddCall(S, kind, cb, s), Len(S.calls) + 1)

\* Database::Exec, Database::LoadExtension
Exec(cb) ==
    /\ NextId <= MaxOps
    /\ Commit(Submit(State, "exec", cb, TRUE))
    /\ UNCHANGED <<opening, each, twin, handle, frames>>

\* Database::Close
Close(cb) ==
    /\ NextId <= MaxOps
    /\ Commit(Submit(State, "close", cb, TRUE))
    /\ UNCHANGED <<opening, each, twin, handle, frames>>

\* Database::Wait
Wait(cb) ==
    /\ NextId <= MaxOps
    /\ Commit(Submit(State, "wait", cb, TRUE))
    /\ UNCHANGED <<opening, each, twin, handle, frames>>

\* Database::Configure: the baton has no callback; a drain follows.
Configure ==
    /\ NextId <= MaxOps
    /\ Commit(Submit(State, "configure", FALSE, FALSE))
    /\ UNCHANGED <<opening, each, twin, handle, frames>>

\* Statement::New: a new statement, whose prepare is scheduled on the
\* connection.
New(cb) ==
    /\ NextId <= MaxOps
    /\ Commit(Submit(State, "prepare", cb, FALSE))
    /\ UNCHANGED <<opening, each, twin, handle, frames>>

\* Statement::Bind, Get, Run, All, Reset
Run(s, cb) ==
    /\ NextId <= MaxOps
    /\ s \in DOMAIN stmts
    /\ Commit(StmtSubmit(State, "run", cb, s))
    /\ UNCHANGED <<opening, each, twin, handle, frames>>

\* Statement::Finalize (the method)
Finalize(s, cb) ==
    /\ NextId <= MaxOps
    /\ s \in DOMAIN stmts
    /\ Commit(StmtSubmit(State, "finalize", cb, s))
    /\ UNCHANGED <<opening, each, twin, handle, frames>>

\* Database::Serialize, called without a callback
Serialize ==
    /\ Commit(Process([State EXCEPT !.serialize = TRUE]))
    /\ UNCHANGED <<opening, each, twin, handle, frames>>

\* Database::Parallelize, called without a callback
Parallelize ==
    /\ Commit(Process([State EXCEPT !.serialize = FALSE]))
    /\ UNCHANGED <<opening, each, twin, handle, frames>>

\* The operations of connection S that are on the thread pool.
InFlightIn(S, kinds) ==
    {id \in 1..Len(S.calls) :
        S.calls[id].st = "inflight" /\ S.calls[id].kind \in kinds}

InFlight(kinds) == InFlightIn(State, kinds)

\* Database::Work_AfterOpen on connection S; ok is the status of
\* sqlite3_open_v2.
AfterOpen(S, ok) ==
    LET S1 == [S EXCEPT !.open = ok]
    IN  IF S1.open THEN Process(S1) ELSE S1

\* Database::Work_AfterExec and Work_AfterLoadExtension on connection S.
AfterExec(S, id, ok) ==
    LET S1 == SetSt(S, id, "done")
        S2 == IF ~ok THEN ReportDb(S1, id, "failed")
              ELSE IF S.calls[id].cb THEN CallCb(S1, id, "ok")
              ELSE S1
    IN  Process(S2)

\* Database::Work_AfterClose on connection S.
AfterClose(S, id, ok) ==
    LET S1 == [SetSt(S, id, "done") EXCEPT !.open = IF ok THEN FALSE ELSE @]
        err == IF ok THEN "ok" ELSE "failed"
        S2 == IF S.calls[id].cb THEN CallCb(S1, id, err)
              ELSE IF S1.open THEN EmitError(S1, id, err, 0)
              ELSE S1
    IN  IF ~S2.open THEN Process(S2) ELSE S2

\* Statement::Work_AfterPrepare on connection S.
AfterPrepare(S, id, ok) ==
    LET S1 == IF ~ok THEN FinalizeStmt(Error(S, id), id)
              ELSE LET S0 == [S EXCEPT !.stmts[id].prepared = TRUE]
                   IN  IF S.calls[id].cb THEN CallCb(S0, id, "ok") ELSE S0
    IN  StatementEnd(S1, id)

\* Statement::Work_AfterBind, Work_AfterGet, Work_AfterRun, Work_AfterAll,
\* Work_AfterReset on connection S.
AfterRun(S, id, ok) ==
    LET S1 == IF ~ok THEN Error(S, id)
              ELSE IF S.calls[id].cb THEN CallCb(S, id, "ok")
              ELSE S
    IN  StatementEnd(S1, id)

\* Database::Work_AfterOpen.  The constructor's callback and the "open" event
\* belong to no scheduled operation and are not logged; `opening` keeps the
\* outcome.
Work_AfterOpen(ok) ==
    /\ opening = "inflight"
    /\ opening' = IF ok THEN "ok" ELSE "failed"
    /\ UNCHANGED <<each, twin, handle, frames>>
    /\ Commit(AfterOpen(State, ok))

\* Database::Work_AfterExec and Work_AfterLoadExtension
Work_AfterExec(id, ok) ==
    /\ id \in InFlight({"exec"})
    /\ Commit(AfterExec(State, id, ok))
    /\ UNCHANGED <<opening, each, twin, handle, frames>>

\* Database::Work_AfterClose
Work_AfterClose(id, ok) ==
    /\ id \in InFlight({"close"})
    /\ Commit(AfterClose(State, id, ok))
    /\ UNCHANGED <<opening, each, twin, handle, frames>>

\* Statement::Work_AfterPrepare
Work_AfterPrepare(id, ok) ==
    /\ id \in InFlight({"prepare"})
    /\ Commit(AfterPrepare(State, id, ok))
    /\ UNCHANGED <<opening, each, twin, handle, frames>>

\* Statement::Work_AfterBind, Work_AfterGet, Work_AfterRun, Work_AfterAll,
\* Work_AfterReset
Work_AfterRun(id, ok) ==
    /\ id \in InFlight({"run"})
    /\ Commit(AfterRun(State, id, ok))
    /\ UNCHANGED <<opening, each, twin, handle, frames>>

Next ==
    \/ \E cb \in BOOLEAN : Exec(cb)
    \/ \E cb \in BOOLEAN : Close(cb)
    \/ \E cb \in BOOLEAN : Wait(cb)
    \/ Configure
    \/ \E cb \in BOOLEAN : New(cb)
    \/ \E s \in DOMAIN stmts, cb \in BOOLEAN : Run(s, cb)
    \/ \E s \in DOMAIN stmts, cb \in BOOLEAN : Finalize(s, cb)
    \/ Serialize
    \/ Parallelize
    \/ \E ok \in BOOLEAN : Work_AfterOpen(ok)
    \/ \E id \in 1..Len(calls), ok \in BOOLEAN : Work_AfterExec(id, ok)
    \/ \E id \in 1..Len(calls), ok \in BOOLEAN : Work_AfterClose(id, ok)
    \/ \E id \in 1..Len(calls), ok \in BOOLEAN : Work_AfterPrepare(id, ok)
    \/ \E id \in 1..Len(calls), ok \in BOOLEAN : Work_AfterRun(id, ok)

Spec == Init /\ [][Next]_vars

\* The client turns serialize mode on before it submits anything and never
\* turns it off: every operation is submitted with serialize = true.
Submission ==
    \/ \E cb \in BOOLEAN : Exec(cb)
    \/ \E cb \in BOOLEAN : Close(cb)
    \/ \E cb \in BOOLEAN : Wait(cb)
    \/ Configure
    \/ \E cb \in BOOLEAN : New(cb)
    \/ \E s \in DOMAIN stmts, cb \in BOOLEAN : Run(s, cb)
    \/ \E s \in DOMAIN stmts, cb \in BOOLEAN : Finalize(s, cb)

Completion ==
    \/ \E ok \in BOOLEAN : Work_AfterOpen(ok)
    \/ \E id \in 1..Len(calls), ok \in BOOLEAN : Work_AfterExec(id, ok)
    \/ \E id \in 1..Len(calls), ok \in BOOLEAN : Work_AfterClose(id, ok)
    \/ \E id \in 1..Len(calls), ok \in BOOLEAN : Work_AfterPrepare(id, ok)
    \/ \E id \in 1..Len(calls), ok \in BOOLEAN : Work_AfterRun(id, ok)

NextSerialized ==
    \/ Serialize
    \/ serialize /\ Submission
    \/ Completion

SpecSerialized == Init /\ [][NextSerialized]_vars

-----------------------------------------------------------------------------
\* One statement followed further: the connection has opened, nothing else is
\* submitted to it, and the client works on the statement it has just
\* created (Statement::New has started the prepare).
TheStmt == 1

InitStatement ==
    /\ open = TRUE
    /\ locked = FALSE
    /\ pending = 1
    /\ serialize = FALSE
    /\ queue = <<>>
    /\ \E cb \in BOOLEAN :
          calls = <<[NewCall("prepare", cb, TheStmt) EXCEPT
                        !.st = "inflight", !.pend = 0, !.opn = TRUE]>>
    /\ stmts = (TheStmt :> NewStatement)
    /\ log = <<>>
    /\ opening = "ok"
    /\ drained = FALSE
    /\ each = NoEach
    /\ twin = NoTwin
    /\ handle = NoHandle
    /\ frames = NoFrames

\* Statement::Bind, Get, Run, All, Reset on the statement
StatementRun(cb) ==
    /\ NextId <= MaxStmtOps
    /\ Commit(StmtSchedule(WithCall("run", cb, TheStmt), NextId))
    /\ UNCHANGED <<opening, each, twin, handle, frames>>

\* Statement::Finalize (the method) on the statement
StatementFinalize(cb) ==
    /\ NextId <= MaxStmtOps
    /\ Commit(StmtSchedule(WithCall("finalize", cb, TheStmt), NextId))
    /\ UNCHANGED <<opening, each, twin, handle, frames>>

NextStatement ==
    \/ \E cb \in BOOLEAN : StatementRun(cb)
    \/ \E cb \in BOOLEAN : StatementFinalize(cb)
    \/ \E ok \in BOOLEAN : Work_AfterPrepare(TheStmt, ok)
    \/ \E id \in 1..Len(calls), ok \in BOOLEAN : Work_AfterRun(id, ok)

SpecStatement == InitStatement /\ [][NextStatement]_vars

-----------------------------------------------------------------------------
\* Statement::Each followed row by row: one each operation in flight on a
\* prepared statement of an open connection.  The worker thread runs Work_Each,
\* the loop thread runs AsyncEach, CloseCallback and Work_AfterEach; a step of
\* one thread is what it does between two accesses to what the threads share.

\* The each operation: the second operation of the statement.
EachId == 2

\* Work_BeginEach has run: the Async is new, the statement locked, the
\* operation counted in pending and Work_Each on the thread pool.  Each takes a
\* completed callback only when the argument before it is a function as well.
InitEach ==
    /\ open = TRUE
    /\ locked = FALSE
    /\ pending = 1
    /\ serialize = FALSE
    /\ queue = <<>>
    /\ stmts = (TheStmt :> [NewStatement EXCEPT !.prepared = TRUE])
    /\ log = <<>>
    /\ opening = "ok"
    /\ drained = FALSE
    /\ twin = NoTwin
    /\ handle = NoHandle
    /\ frames = NoFrames
    /\ \E cb \in BOOLEAN, donecb \in BOOLEAN :
          /\ donecb => cb
          /\ calls =
                <<[NewCall("prepare", FALSE, TheStmt) EXCEPT
                      !.st = "done", !.pend = 0, !.opn = TRUE],
                  [NewCall("each", cb, TheStmt) EXCEPT
                      !.st = "inflight", !.pend = 0, !.opn = TRUE]>>
          /\ each = [NoEach EXCEPT !.wpc = "step", !.donecb = donecb]

\* Work_Each, a row: async->data.push_back(row), then the mutex is released.
Push(e) ==
    [e EXCEPT !.data = Append(@, e.produced + 1), !.produced = @ + 1,
              !.mutex = "free", !.wpc = "send"]

\* uv_async_send(&async->watcher): the watcher becomes pending, once however
\* many sends precede the callback.  On a watcher that uv_close has closed the
\* send wakes nothing; on a deleted Async it is a use after free, which may
\* bring the process down.
AsyncSend(e, crash) ==
    IF e.closed
    THEN [e EXCEPT !.sentClosed = TRUE, !.crashed = crash]
    ELSE [e EXCEPT !.wake = TRUE]

\* The outcomes of a use of the Async.
Crashes == IF each.freed THEN BOOLEAN ELSE {FALSE}

\* AsyncEach: a batch is passed row by row to the item callback when there is
\* one.
Deliver(e, rows, itemcb) ==
    [e EXCEPT
        !.delivered = IF itemcb THEN @ \o rows ELSE @,
        !.retrieved = IF itemcb THEN @ + Len(rows) ELSE @,
        !.batches = Append(@, Len(rows)),
        !.cbHeld = @ \/ (itemcb /\ e.mutex = "consumer")]

\* The buffer is copied and not emptied.
MutSwap(e, itemcb) ==
    LET rows == e.data
        e1 == [e EXCEPT !.mutex = "free"]
    IN  IF rows = <<>> THEN [e1 EXCEPT !.cpc = "check"]
        ELSE [Deliver(e1, rows, itemcb) EXCEPT !.cpc = "lock"]

\* The mutex is released after the callbacks of the batch.
MutSwapHoldsMutex(e, itemcb) ==
    LET rows == e.data
        e1 == [e EXCEPT !.data = <<>>]
    IN  IF rows = <<>> THEN [e1 EXCEPT !.cpc = "check", !.mutex = "free"]
        ELSE [Deliver(e1, rows, itemcb) EXCEPT !.cpc = "lock",
                                               !.mutex = "free"]

\* AsyncEach, one turn of its loop, the mutex taken: the buffer is swapped out
\* and the mutex released; an empty batch ends the loop, any other is
\* delivered and the loop goes on.
Swap(e, itemcb) ==
    LET rows == e.data
        e1 == [e EXCEPT !.data = <<>>, !.mutex = "free"]
    IN  IF rows = <<>> THEN [e1 EXCEPT !.cpc = "check"]
        ELSE [Deliver(e1, rows, itemcb) EXCEPT !.cpc = "lock"]

\* AsyncEach after its loop: when completed reads true, the completed callback
\* is called with (null, async->retrieved) and the watcher is closed.  A call
\* records what the buffer held and what the worker had set at that moment.
Completed(e, seen) ==
    IF ~seen THEN [e EXCEPT !.cpc = "idle"]
    ELSE [e EXCEPT
             !.cpc = "idle",
             !.closed = TRUE,
             !.cbHeld = @ \/ (e.donecb /\ e.mutex = "consumer"),
             !.fired = IF e.donecb
                       THEN Append(@, [err |-> FALSE, count |-> e.retrieved,
                                       buffered |-> Len(e.data),
                                       completed |-> e.completed])
                       ELSE @]

\* Work_Each: sqlite3_step returned SQLITE_ROW, the row is read and the mutex
\* of the Async taken.
Work_Each_Lock ==
    /\ each.wpc = "step"
    /\ ~each.crashed
    /\ each.produced < MaxRows
    /\ each.mutex = "free"
    /\ each' = [each EXCEPT !.mutex = "worker", !.wpc = "push"]
    /\ UNCHANGED schedVars

\* Work_Each: the row is buffered.
Work_Each_Row ==
    /\ each.wpc = "push"
    /\ ~each.crashed
    /\ each' = Push(each)
    /\ UNCHANGED schedVars

\* Work_Each: the uv_async_send that follows a row.
Work_Each_Send ==
    /\ each.wpc = "send"
    /\ ~each.crashed
    /\ \E crash \in Crashes :
          each' = [AsyncSend(each, crash) EXCEPT !.wpc = "step"]
    /\ UNCHANGED schedVars

\* Work_Each: sqlite3_step returned SQLITE_DONE (ok) or an error, or the bind
\* failed; the loop is left and completed is set, outside the mutex.
Work_Each_End(ok) ==
    /\ each.wpc = "step"
    /\ ~each.crashed
    /\ each' = [each EXCEPT !.status = IF ok THEN "done" ELSE "error",
                            !.completed = TRUE,
                            !.wpc = "lastsend"]
    /\ UNCHANGED schedVars

\* Work_Each: the last uv_async_send, then the work function returns.
Work_Each_LastSend ==
    /\ each.wpc = "lastsend"
    /\ ~each.crashed
    /\ \E crash \in Crashes :
          each' = [AsyncSend(each, crash) EXCEPT !.wpc = "exit"]
    /\ UNCHANGED schedVars

\* The loop thread finds the watcher pending and enters AsyncEach.
AsyncEach_Begin ==
    /\ each.cpc = "idle"
    /\ ~each.crashed
    /\ each.wake
    /\ ~each.closed
    /\ each' = [each EXCEPT !.wake = FALSE, !.cpc = "lock"]
    /\ UNCHANGED schedVars

\* AsyncEach takes the mutex of the Async.
AsyncEach_Lock ==
    /\ each.cpc = "lock"
    /\ ~each.crashed
    /\ each.mutex = "free"
    /\ each' = [each EXCEPT !.mutex = "consumer", !.cpc = "swap"]
    /\ UNCHANGED schedVars

AsyncEach_Swap ==
    /\ each.cpc = "swap"
    /\ ~each.crashed
    /\ each' = Swap(each, calls[EachId].cb)
    /\ UNCHANGED schedVars

\* The read of async->completed is not ordered with the worker's write by
\* anything before the worker's last uv_async_send: until then it may yield
\* the old value or the new one.
AsyncEach_Completed ==
    /\ each.cpc = "check"
    /\ ~each.crashed
    /\ \E seen \in (IF each.wpc = "lastsend" THEN BOOLEAN
                    ELSE {each.completed}) :
          each' = Completed(each, seen)
    /\ UNCHANGED schedVars

\* CloseCallback: delete async.
CloseCallback ==
    /\ each.cpc = "idle"
    /\ ~each.crashed
    /\ each.closed
    /\ ~each.freed
    /\ each' = [each EXCEPT !.freed = TRUE]
    /\ UNCHANGED schedVars

\* Work_AfterEach, on the loop thread once Work_Each has returned.
Work_AfterEach ==
    /\ each.wpc = "exit"
    /\ each.cpc = "idle"
    /\ ~each.crashed
    /\ LET S1 == IF each.status # "done" THEN Error(State, EachId)
                 ELSE State
       IN  Commit(StatementEnd(S1, EachId))
    /\ each' = [each EXCEPT !.wpc = "finished"]
    /\ UNCHANGED <<opening, twin, handle, frames>>

\* A handler of the loop thread other than AsyncEach: it runs between two
\* calls of AsyncEach, not inside one.
BetweenCallbacks == each.cpc = "idle" /\ ~each.crashed

NextEach ==
    \/ Work_Each_Lock
    \/ Work_Each_Row
    \/ Work_Each_Send
    \/ \E ok \in BOOLEAN : Work_Each_End(ok)
    \/ Work_Each_LastSend
    \/ AsyncEach_Begin
    \/ AsyncEach_Lock
    \/ AsyncEach_Swap
    \/ AsyncEach_Completed
    \/ CloseCallback
    \/ Work_AfterEach
    \/ BetweenCallbacks /\ \E cb \in BOOLEAN : StatementRun(cb)
    \/ BetweenCallbacks /\ \E id \in 1..Len(calls), ok \in BOOLEAN :
                              Work_AfterRun(id, ok)

SpecEach == InitEach /\ [][NextEach]_vars

-----------------------------------------------------------------------------
\* Two connections side by side, given the same submissions and the same
\* completions: the one of the variables, in serialize mode, and twin, in
\* parallelize mode, whose every Database::Schedule is passed exclusive = true.

\* The client has called db.serialize() before anything else on the first
\* connection; both opens are on the thread pool.
InitEquiv ==
    /\ open = FALSE
    /\ locked = FALSE
    /\ pending = 0
    /\ serialize = TRUE
    /\ queue = <<>>
    /\ calls = <<>>
    /\ stmts = <<>>
    /\ log = <<>>
    /\ opening = "inflight"
    /\ drained = FALSE
    /\ each = NoEach
    /\ twin = NoTwin
    /\ handle = NoHandle
    /\ frames = NoFrames

\* The second connection as a handler finds it.
Twin == [twin EXCEPT !.drained = FALSE]

\* The same method called on both connections: the first with the method's
\* own exclusive flag, the second with exclusive = true.
EquivSubmit(kind, cb) ==
    /\ NextId <= MaxOps
    /\ kind = "configure" => ~cb
    /\ Commit(Submit(State, kind, cb, kind \in ExclusiveKinds))
    /\ twin' = Submit(Twin, kind, cb, TRUE)
    /\ UNCHANGED <<opening, each, handle, frames>>

\* The same method of the same statement called on both connections.
EquivStmtSubmit(kind, s, cb) ==
    /\ NextId <= MaxOps
    /\ s \in DOMAIN stmts
    /\ Commit(StmtSubmit(State, kind, cb, s))
    /\ twin' = StmtSubmit(Twin, kind, cb, s)
    /\ UNCHANGED <<opening, each, handle, frames>>

\* The two opens complete with the same status.
EquivAfterOpen(ok) ==
    /\ opening = "inflight"
    /\ opening' = IF ok THEN "ok" ELSE "failed"
    /\ Commit(AfterOpen(State, ok))
    /\ twin' = AfterOpen(Twin, ok)
    /\ UNCHANGED <<each, handle, frames>>

\* The operations in flight on both connections.
BothInFlight(kinds) == InFlight(kinds) \cap InFlightIn(twin, kinds)

\* The same operation completes with the same status on both connections.
EquivAfterExec(id, ok) ==
    /\ id \in BothInFlight({"exec"})
    /\ Commit(AfterExec(State, id, ok))
    /\ twin' = AfterExec(Twin, id, ok)
    /\ UNCHANGED <<opening, each, handle, frames>>

EquivAfterClose(id, ok) ==
    /\ id \in BothInFlight({"close"})
    /\ Commit(AfterClose(State, id, ok))
    /\ twin' = AfterClose(Twin, id, ok)
    /\ UNCHANGED <<opening, each, handle, frames>>

EquivAfterPrepare(id, ok) ==
    /\ id \in BothInFlight({"prepare"})
    /\ Commit(AfterPrepare(State, id, ok))
    /\ twin' = AfterPrepare(Twin, id, ok)
    /\ UNCHANGED <<opening, each, handle, frames>>

EquivAfterRun(id, ok) ==
    /\ id \in BothInFlight({"run"})
    /\ Commit(AfterRun(State, id, ok))
    /\ twin' = AfterRun(Twin, id, ok)
    /\ UNCHANGED <<opening, each, handle, frames>>

NextEquiv ==
    \/ \E kind \in DbKinds, cb \in BOOLEAN : EquivSubmit(kind, cb)
    \/ \E kind \in StmtKinds, s \in DOMAIN stmts, cb \in BOOLEAN :
          EquivStmtSubmit(kind, s, cb)
    \/ \E ok \in BOOLEAN : EquivAfterOpen(ok)
    \/ \E id \in 1..Len(calls), ok \in BOOLEAN : EquivAfterExec(id, ok)
    \/ \E id \in 1..Len(calls), ok \in BOOLEAN : EquivAfterClose(id, ok)
    \/ \E id \in 1..Len(calls), ok \in BOOLEAN : EquivAfterPrepare(id, ok)
    \/ \E id \in 1..Len(calls), ok \in BOOLEAN : EquivAfterRun(id, ok)

SpecEquiv == InitEquiv /\ [][NextEquiv]_vars

-----------------------------------------------------------------------------
\* The native handle followed through a close: Work_Close runs on a worker
\* thread between Work_BeginClose and Work_AfterClose and clears _handle when
\* sqlite3_close succeeds.

\* An open connection with nothing submitted, in either mode.
InitHandle ==
    /\ open = TRUE
    /\ locked = FALSE
    /\ pending = 0
    /\ serialize \in BOOLEAN
    /\ queue = <<>>
    /\ calls = <<>>
    /\ stmts = <<>>
    /\ log = <<>>
    /\ opening = "ok"
    /\ drained = FALSE
    /\ each = NoEach
    /\ twin = NoTwin
    /\ handle = NoHandle
    /\ frames = NoFrames

\* The closes in flight whose Work_Close has not run yet.
ClosesAtWork == InFlight({"close"}) \ (handle.ok \cup handle.failed)

\* Database::Work_Close, on the worker thread; sqlite3_close of a null handle
\* does nothing and returns SQLITE_OK.
Work_Close(id, ok) ==
    /\ id \in ClosesAtWork
    /\ ~handle.set => ok
    /\ handle' = IF ok
                 THEN [handle EXCEPT !.set = FALSE, !.ok = @ \cup {id}]
                 ELSE [handle EXCEPT !.failed = @ \cup {id}]
    /\ UNCHANGED <<open, locked, pending, serialize, queue, calls, stmts, log,
                   opening, drained, each, twin, frames>>

\* Database::Work_AfterClose, with the status Work_Close left in the baton.
Work_AfterClosed(id) ==
    /\ id \in InFlight({"close"})
    /\ id \in handle.ok \cup handle.failed
    /\ Commit(AfterClose(State, id, id \in handle.ok))
    /\ UNCHANGED <<opening, each, twin, handle, frames>>

NextHandle ==
    \/ \E cb \in BOOLEAN : Exec(cb)
    \/ \E cb \in BOOLEAN : Close(cb)
    \/ \E cb \in BOOLEAN : Wait(cb)
    \/ Configure
    \/ \E cb \in BOOLEAN : New(cb)
    \/ \E id \in 1..Len(calls), ok \in BOOLEAN : Work_Close(id, ok)
    \/ \E id \in 1..Len(calls) : Work_AfterClosed(id)
    \/ \E id \in 1..Len(calls), ok \in BOOLEAN : Work_AfterExec(id, ok)
    \/ \E id \in 1..Len(calls), ok \in BOOLEAN : Work_AfterPrepare(id, ok)

SpecHandle == InitHandle /\ [][NextHandle]_vars

-----------------------------------------------------------------------------
\* Database::Serialize and Database::Parallelize called with a callback.  The
\* callback runs inside the call, on the loop thread: while it runs the
\* client submits operations and calls Serialize and Parallelize again, and no
\* completion handler runs.

\* The call up to its callback: before = db->serialize; db->serialize = mode.
EnterMode(mode) ==
    /\ Len(frames.stack) < MaxDepth
    /\ serialize' = mode
    /\ frames' = [stack |-> Append(frames.stack, serialize),
                  depth |-> IF Len(frames.stack) + 1 > frames.depth
                            THEN Len(frames.stack) + 1 ELSE frames.depth]
    /\ UNCHANGED <<open, locked, pending, queue, calls, stmts, log, opening,
                   drained, each, twin, handle>>

\* The mode is set to parallelize when the callback has returned.
MutLeaveMode(S, before) == Process([S EXCEPT !.serialize = FALSE])

\* The call after its callback: db->serialize = before; db->Process().
LeaveMode(S, before) == Process([S EXCEPT !.serialize = before])

\* The callback of the innermost call returns.
ReturnMode ==
    /\ frames.stack # <<>>
    /\ Commit(LeaveMode(State, frames.stack[Len(frames.stack)]))
    /\ frames' = [frames EXCEPT
                     !.stack = SubSeq(@, 1, Len(frames.stack) - 1)]
    /\ UNCHANGED <<opening, each, twin, handle>>

\* No callback of Serialize or Parallelize is running: the loop thread is free
\* for a completion handler.
LoopFree == frames.stack = <<>>

NextMode ==
    \/ \E mode \in BOOLEAN : EnterMode(mode)
    \/ ReturnMode
    \/ Serialize
    \/ Parallelize
    \/ \E cb \in BOOLEAN : Exec(cb)
    \/ Configure
    \/ \E cb \in BOOLEAN : New(cb)
    \/ LoopFree /\ \E id \in 1..Len(calls), ok \in BOOLEAN :
                      Work_AfterExec(id, ok)
    \/ LoopFree /\ \E id \in 1..Len(calls), ok \in BOOLEAN :
                      Work_AfterPrepare(id, ok)

SpecMode == InitHandle /\ [][NextMode]_vars

-----------------------------------------------------------------------------
\* Vocabulary of the properties.

Ids == 1..Len(calls)

\* The work function of the operation has been invoked.
Started(c) == c.pend >= 0

\* The operation runs as exclusive: it was submitted as exclusive, or its
\* Call was queued with the exclusive flag (serialize mode).
RunsExclusive(c) == c.kind \in ExclusiveKinds \/ c.excl

\* This step is a submission; the new operation is Len(calls').
Submits == Len(calls') = Len(calls) + 1

\* A successful close has completed: only Work_AfterClose resets open.
CloseCompleted == opening = "ok" /\ ~open

\* The ids of the callbacks invoked so far, in order.
CbOrder == SelectSeq(log, LAMBDA e : e.ch = "cb" /\ e.op > 0)

-----------------------------------------------------------------------------
\* C1: an exclusive connection operation (close, exec, loadExtension, wait,
\* or an item queued in serialize mode) is started, by Schedule or by
\* Process, only when pending = 0; queued while pending > 0, it is not started
\* before pending is 0.
C1_ExclusiveStartsWhenIdle ==
    \A id \in Ids :
        (RunsExclusive(calls[id]) /\ Started(calls[id])) => calls[id].pend = 0

\* An exec that was queued behind operations in flight has been started, and
\* so has an item queued in serialize mode.
C1_Witness ==
    /\ \E id \in Ids : /\ calls[id].kind \in ExclusiveKinds
                       /\ calls[id].qpend > 0
                       /\ Started(calls[id])
    /\ \E id \in Ids : /\ calls[id].kind \notin ExclusiveKinds
                       /\ calls[id].excl
                       /\ calls[id].qpend > 0
                       /\ Started(calls[id])

\* C2: while an exclusive operation is on the thread pool (exec, close,
\* loadExtension), no other operation of the connection is in flight.
C2_ExclusiveRunsAlone ==
    \A e \in InFlight(PoolExclusiveKinds) :
        \A o \in Ids : o # e => calls[o].st # "inflight"

\* C3: in every reachable state, pending > 0 implies that locked is false.
C3_PendingImpliesUnlocked == pending > 0 => ~locked

\* C4: an operation submitted to the connection after an exclusive operation
\* E is not started while E is still waiting in the connection queue.
C4_NoBypassOfQueuedExclusive ==
    \A e \in Ids, p \in Ids :
        (/\ e < p
         /\ calls[e].kind \in ExclusiveKinds
         /\ calls[e].st = "queued"
         /\ calls[p].kind \in DbKinds)
        => ~Started(calls[p])

\* C5: once a close has completed successfully, every later submission to
\* the connection fails at once with a closed error: it is neither queued
\* nor run.
C5_SubmissionAfterCloseFails ==
    [][(CloseCompleted /\ Submits /\ calls'[Len(calls')].kind \in DbKinds)
       => LET n == Len(calls') IN
          /\ calls'[n].st = "failed"
          /\ queue' = queue
          /\ log' = Append(log, Entry(n, IF calls'[n].cb THEN "cb" ELSE "event",
                                      "closed", 0))]_vars

\* C6: Schedule called in the closed state (open false, locked true) does not
\* queue the item, does not invoke its work function, leaves open, locked,
\* pending and the queue as they are, and reports one closed error: to the
\* callback of the item when it has one, as an error event otherwise.
C6_ScheduleWhenClosed ==
    [][(~open /\ locked /\ Submits /\ calls'[Len(calls')].kind \in DbKinds)
       => LET n == Len(calls') IN
          /\ open' = open /\ locked' = locked /\ pending' = pending
          /\ queue' = queue
          /\ calls'[n].st = "failed"
          /\ calls'[n].qpend = -1
          /\ ~Started(calls'[n])
          /\ \A i \in Ids : calls'[i] = calls[i]
          /\ log' = Append(log, Entry(n, IF calls'[n].cb THEN "cb" ELSE "event",
                                      "closed", 0))]_vars

\* Schedule has rejected an item with a callback and an item without one.
C6_Witness ==
    /\ ~open /\ locked
    /\ \E i \in Ids, j \in Ids :
          /\ calls[i].kind \in DbKinds /\ calls[j].kind \in DbKinds
          /\ calls[i].st = "failed" /\ calls[j].st = "failed"
          /\ calls[i].qpend = -1 /\ calls[j].qpend = -1
          /\ calls[i].cb /\ ~calls[j].cb
          /\ \E k \in 1..Len(log) : log[k] = Entry(i, "cb", "closed", 0)
          /\ \E k \in 1..Len(log) : log[k] = Entry(j, "event", "closed", 0)

\* The operation is one C7 speaks of: a connection-level item, or an
\* operation on a statement that is prepared and not finalized.
C7_Covered(n) ==
    \/ calls'[n].kind \in DbKinds
    \/ /\ calls'[n].kind \in StmtKinds
       /\ stmts[calls'[n].stmt].prepared
       /\ ~stmts[calls'[n].stmt].finalized

\* C7: after the connection has closed, no operation of it is dispatched to
\* the thread pool, neither a connection-level item nor an operation on a
\* prepared, not finalized statement; each such submission is resolved
\* through an error.
C7_NoDispatchAfterClose ==
    [][(CloseCompleted /\ Submits /\ C7_Covered(Len(calls')))
       => LET n == Len(calls') IN
          /\ ~Started(calls'[n])
          /\ calls'[n].st = "failed"
          /\ \E k \in 1..Len(log') : log'[k].op = n /\ log'[k].err = "closed"]_vars

\* C8: when the open fails the connection is closed for good (open false,
\* locked true), every item queued before is failed with an error, and no
\* later submission is queued.
C8_OpenFailureCloses ==
    opening = "failed" =>
        /\ ~open /\ locked
        /\ queue = <<>>
        /\ \A id \in Ids : calls[id].kind \in DbKinds => calls[id].st = "failed"

\* The callbacks and the error event of a drain of queue q with a closed error.
RECURSIVE C9_DrainLog(_)
C9_DrainLog(q) ==
    IF q = <<>> THEN <<>>
    ELSE (IF calls[Head(q)].cb
          THEN <<Entry(Head(q), "cb", "handle_closed", 0)>> ELSE <<>>)
         \o C9_DrainLog(Tail(q))

\* C9: when a close completes successfully with items still queued, the drain
\* removes every queued item without running it, calls the callback of each
\* item that has one with a closed error in arrival order, emits one error
\* event if and only if no queued item had a callback, and does not fail the
\* operations that were dispatched before.
C9_CloseDrainsQueue ==
    [][(/\ open /\ ~open'
        /\ queue # <<>>)
       => /\ queue' = <<>>
          /\ \A i \in 1..Len(queue) :
                /\ calls'[queue[i]].st = "failed"
                /\ ~Started(calls'[queue[i]])
          /\ \A id \in Ids : calls[id].st = "inflight" /\ calls[id].kind # "close"
                             => calls'[id] = calls[id]
          /\ \E c \in Ids :
                /\ calls[c].kind = "close" /\ calls[c].st = "inflight"
                /\ calls'[c].st = "done"
                /\ log' = log
                     \o (IF calls[c].cb THEN <<Entry(c, "cb", "ok", 0)>> ELSE <<>>)
                     \o C9_DrainLog(queue)
                     \o (IF \E i \in 1..Len(queue) : calls[queue[i]].cb
                         THEN <<>>
                         ELSE <<Entry(0, "event", "handle_closed", 0)>>)]_vars

\* C10: with serialize mode on (SpecSerialized), the completion callbacks of
\* the operations submitted to one connection (connection-level operations
\* and operations on its statements) are invoked in submission order.
C10_SerializedCallbackOrder ==
    \A i \in 1..Len(CbOrder), j \in 1..Len(CbOrder) :
        i < j => CbOrder[i].op < CbOrder[j].op

\* Submitted to the connection while it was open: an item is queued with
\* pending = 0 exactly when the connection is not open (pending is 0 until
\* the open has completed, and an open connection queues only behind
\* operations in flight).
OnOpenConnection(c) == c.kind \in DbKinds /\ c.qpend # 0

\* Submitted through Database::Schedule with exclusive = false.
NonExclusiveKinds == DbKinds \ ExclusiveKinds

\* An operation that runs as exclusive is in flight.
ExclusiveInFlight ==
    \E e \in Ids : calls[e].st = "inflight" /\ RunsExclusive(calls[e])

\* The connection will never be open again: the open failed or a close
\* succeeded.
PermanentlyClosed == ~open /\ opening # "inflight"

\* C11: with serialize mode on for all submissions (SpecSerialized), of the
\* operations submitted to the open connection at most one is in flight at
\* any time: an operation is started only when every operation submitted
\* before it has completed.
C11_SerializedOneInFlight ==
    \A x \in Ids, y \in Ids :
        (/\ x < y
         /\ OnOpenConnection(calls[x]) /\ OnOpenConnection(calls[y])
         /\ Started(calls[y]))
        => calls[x].st = "done"

\* C12: on a connection that has just opened, in parallelize mode, each of N
\* non-exclusive submissions made back to back (nothing was submitted before
\* them and none of them has completed) is dispatched at once by Schedule and
\* is not queued; pending is then the number of prepares submitted, all of
\* them in flight.
C12_ParallelDispatch ==
    [][(/\ open /\ ~serialize /\ Submits
        /\ calls'[Len(calls')].kind \in NonExclusiveKinds
        /\ \A i \in Ids : /\ calls[i].kind \in NonExclusiveKinds
                          /\ calls[i].qpend = -1
                          /\ calls[i].kind = "prepare" => calls[i].st = "inflight")
       => LET n == Len(calls') IN
          /\ queue' = <<>>
          /\ calls'[n].qpend = -1
          /\ Started(calls'[n])
          /\ calls'[n].pend = pending
          /\ calls'[n].kind = "prepare" => calls'[n].st = "inflight"
          /\ pending' = Cardinality({i \in 1..n : calls'[i].kind = "prepare"})]_vars

\* MaxOps prepares submitted back to back are all in flight, none was queued.
C12_Witness ==
    /\ open /\ ~serialize /\ queue = <<>>
    /\ Len(calls) = MaxOps
    /\ pending = MaxOps
    /\ \A i \in Ids : /\ calls[i].kind = "prepare"
                      /\ calls[i].st = "inflight"
                      /\ calls[i].qpend = -1
                      /\ calls[i].pend = i - 1

\* C13: in parallelize mode a non-exclusive submission to an open connection
\* is queued only if an exclusive operation is in flight at that moment; when
\* none is in flight it is dispatched at once, even while non-exclusive
\* operations are in flight.
C13_QueuedOnlyBehindExclusive ==
    [][(/\ open /\ ~serialize /\ Submits
        /\ calls'[Len(calls')].kind \in NonExclusiveKinds
        /\ ~ExclusiveInFlight)
       => LET n == Len(calls') IN
          /\ calls'[n].st # "queued"
          /\ calls'[n].qpend = -1
          /\ Started(calls'[n])]_vars

\* C14: in every reachable state, if locked is true then an exclusive
\* operation is in flight on the connection or the connection is closed for
\* good.
C14_LockedMeansExclusiveOrClosed ==
    locked => (ExclusiveInFlight \/ PermanentlyClosed)

\* Operations that end with a completion handler on the event loop: the
\* thread-pool operations, and wait, which completes inside Work_Wait.
CompletingKinds == {"exec", "close", "wait", "prepare", "run"}

\* In this step operation id completes.
Completes(id) ==
    /\ calls'[id].kind \in CompletingKinds
    /\ calls'[id].st = "done"
    /\ id \in Ids => calls[id].st # "done"

\* C15: every completion on the connection is followed by a drain of the
\* connection queue (Database::Process): the completion of the open, of
\* close, exec, loadExtension, wait and of the statement operations, whether
\* the operation succeeded or failed.
C15_CompletionDrains ==
    [][(opening' # opening \/ \E id \in 1..Len(calls') : Completes(id))
       => drained']_vars

\* The ids of the operations submitted to the connection, in submission order.
DbIds == SelectSeq([i \in Ids |-> i], LAMBDA i : calls[i].kind \in DbKinds)

\* C16: the items of the connection queue are started in arrival order:
\* no item that went through the queue is started while an item queued
\* earlier is still queued; until the open has completed every item
\* submitted to the connection is queued, in submission order, and such an
\* item is started only on the connection opened successfully.
C16_QueueFifo ==
    /\ \A q \in Ids, p \in Ids :
          (q < p /\ calls[q].st = "queued" /\ calls[p].qpend >= 0)
          => ~Started(calls[p])
    /\ opening = "inflight" =>
          /\ queue = DbIds
          /\ \A i \in Ids : calls[i].kind \in DbKinds =>
                calls[i].st = "queued" /\ ~Started(calls[i])
    /\ \A i \in Ids :
          (calls[i].kind \in DbKinds /\ calls[i].qpend = 0 /\ Started(calls[i]))
          => calls[i].opn /\ opening = "ok"

\* MaxOps prepares queued before the open completed have all been started, in
\* submission order: each found the earlier ones in flight.
C16_Witness ==
    /\ opening = "ok" /\ queue = <<>>
    /\ Len(calls) = MaxOps
    /\ \A i \in Ids : /\ calls[i].kind = "prepare"
                      /\ calls[i].qpend = 0
                      /\ Started(calls[i])
                      /\ calls[i].pend = i - 1

\* The statement operations submitted on statement s, in submission order.
StmtIds(s) ==
    SelectSeq([i \in Ids |-> i],
              LAMBDA i : calls[i].kind \in StmtKinds /\ calls[i].stmt = s)

\* C17: no statement operation is started before the prepare of its statement
\* has completed successfully: until then the operations submitted are
\* buffered in the statement queue, in submission order, and none is started.
C17_NoStartBeforePrepared ==
    /\ \A i \in Ids :
          (calls[i].kind \in StmtKinds /\ Started(calls[i]))
          => stmts[calls[i].stmt].prepared
    /\ \A s \in DOMAIN stmts :
          (~stmts[s].prepared /\ ~stmts[s].finalized)
          => /\ stmts[s].queue = StmtIds(s)
             /\ \A i \in Ids : calls[i].kind \in StmtKinds /\ calls[i].stmt = s
                               => calls[i].st = "squeued"

\* A run submitted before the open of the connection completed, so before the
\* prepare of its statement completed (the item submitted after it was queued
\* on a connection not open yet), has been started on the prepared statement.
C17_Witness ==
    /\ open
    /\ \E r \in Ids, x \in Ids :
          /\ r < x
          /\ calls[x].kind \in DbKinds /\ calls[x].qpend = 0
          /\ calls[r].kind = "run" /\ Started(calls[r])
          /\ stmts[calls[r].stmt].prepared
          /\ calls[calls[r].stmt].st = "done"

\* The operations of a statement that hold its lock while in flight.
LockingKinds == {"prepare", "run"}

\* C18: at most one operation of a statement is in flight at any time, the
\* statement is locked while it is, and a finalized statement has none;
\* operations of two statements of the connection can be in flight together.
C18_OneInFlightPerStatement ==
    /\ \A a \in Ids, b \in Ids :
          (/\ a # b
           /\ calls[a].kind \in LockingKinds /\ calls[b].kind \in LockingKinds
           /\ calls[a].stmt = calls[b].stmt
           /\ calls[a].st = "inflight")
          => calls[b].st # "inflight"
    /\ \A a \in Ids :
          (calls[a].kind \in LockingKinds /\ calls[a].st = "inflight")
          => /\ stmts[calls[a].stmt].locked
             /\ ~stmts[calls[a].stmt].finalized

\* Operations of two statements are in flight together while an operation
\* submitted on one of them waits in its statement queue.
C18_Witness ==
    \E a \in Ids, b \in Ids, c \in Ids :
        /\ calls[a].stmt # calls[b].stmt
        /\ calls[a].kind \in LockingKinds /\ calls[b].kind \in LockingKinds
        /\ calls[a].st = "inflight" /\ calls[b].st = "inflight"
        /\ calls[c].kind = "run" /\ calls[c].stmt = calls[a].stmt
        /\ calls[c].st = "squeued"
        /\ stmts[calls[a].stmt].queue = <<c>>

\* C19: at the completion of a statement operation the statement lock is
\* cleared and pending decremented, then the statement queue is drained, then
\* the connection queue.  A run at the head of the statement queue is started
\* (it finds the decremented pending) before the connection drain looks at
\* its head, so an exclusive item at the head of the connection queue stays
\* queued; with nothing in the statement queue the connection drain finds the
\* decremented pending and starts its head.
C19_StatementEndOrder ==
    [][\A id \in Ids :
          (/\ calls[id].kind \in LockingKinds
           /\ calls[id].st = "inflight" /\ calls'[id].st = "done")
          => LET s == calls[id].stmt
                 q == stmts[s].queue
             IN  /\ (/\ q # <<>>
                     /\ stmts'[s].prepared /\ ~stmts'[s].finalized
                     /\ calls[Head(q)].kind = "run")
                    => /\ calls'[Head(q)].st = "inflight"
                       /\ calls'[Head(q)].pend = pending - 1
                       /\ stmts'[s].locked
                       /\ stmts'[s].queue = Tail(q)
                       /\ pending' >= 1
                       /\ (open /\ queue # <<>> /\ calls[Head(queue)].excl)
                          => queue' = queue
                 /\ (q = <<>> /\ open /\ queue # <<>> /\ pending = 1)
                    => /\ calls'[Head(queue)].pend = 0
                       /\ Started(calls'[Head(queue)])]_vars

\* An exec was queued behind the prepare of a statement and a run was then
\* submitted on the statement; the prepare has completed, the run is in
\* flight and the exec is still queued.
C19_Witness ==
    \E p \in Ids, e \in Ids, r \in Ids :
        /\ p < e /\ e < r
        /\ calls[p].kind = "prepare" /\ calls[p].st = "done"
        /\ calls[e].kind = "exec" /\ calls[e].st = "queued" /\ calls[e].qpend = 1
        /\ calls[r].kind = "run" /\ calls[r].stmt = p /\ calls[r].st = "inflight"
        /\ queue = <<e>>
        /\ pending = 1

\* The entries added to the log by this step.
NewLog == SubSeq(log', Len(log) + 1, Len(log'))

\* The number of entries of a sequence that satisfy Test.
Count(seq, Test(_)) == Len(SelectSeq(seq, Test))

\* C20: when a statement is finalized, every item that was in its queue
\* receives exactly one resolution: an error delivered to its own callback,
\* or the single error raised on the statement's error channel.
C20_FinalizeResolvesQueue ==
    [][\A s \in DOMAIN stmts :
          (~stmts[s].finalized /\ stmts'[s].finalized)
          => \A i \in 1..Len(stmts[s].queue) :
                LET id == stmts[s].queue[i]
                    own == Count(NewLog, LAMBDA e : e.op = id /\ e.ch = "cb")
                    shared == Count(NewLog,
                                    LAMBDA e : /\ e.ch = "event" /\ e.on = s
                                               /\ e.op \in {0, s})
                IN  \/ calls'[id].kind = "finalize" /\ Started(calls'[id])
                    \/ own = 1 /\ shared = 0
                    \/ own = 0 /\ shared = 1]_vars

\* The operations submitted on statement s.
OpsOf(s) == {i \in Ids : calls[i].kind \in StmtKinds /\ calls[i].stmt = s}

\* In this step statement s is finalized.
Finalizes(s) == ~stmts[s].finalized /\ stmts'[s].finalized

\* The items CleanQueue finds in the queue when statement s is finalized in
\* this step: the queue but for the finalize that is running, which
\* Statement::Process has popped.
Cleaned(s) ==
    LET q == stmts[s].queue
    IN  IF q # <<>> /\ calls[Head(q)].kind = "finalize" THEN Tail(q) ELSE q

\* The already-finalized errors of the callbacks of queue q, in arrival order.
RECURSIVE FinalizedCallbacks(_)
FinalizedCallbacks(q) ==
    IF q = <<>> THEN <<>>
    ELSE (IF calls[Head(q)].cb
          THEN <<Entry(Head(q), "cb", "finalized", 0)>> ELSE <<>>)
         \o FinalizedCallbacks(Tail(q))

\* The already-finalized errors reported in this step.
NewFinalizedErrors == SelectSeq(NewLog, LAMBDA e : e.err = "finalized")

\* C21: when a prepared statement is finalized with items queued, each queued
\* item that has a callback gets the already-finalized error, in arrival
\* order, none of the items is run, and the error event on the statement is
\* emitted once if no queued item had a callback and not at all otherwise.
C21_FinalizeQueuedItems ==
    [][\A s \in DOMAIN stmts :
          (Finalizes(s) /\ stmts'[s].prepared /\ Cleaned(s) # <<>>)
          => LET q == Cleaned(s) IN
             /\ stmts'[s].queue = <<>>
             /\ \A i \in 1..Len(q) :
                   calls'[q[i]].st = "failed" /\ ~Started(calls'[q[i]])
             /\ NewFinalizedErrors =
                   FinalizedCallbacks(q)
                   \o (IF \E i \in 1..Len(q) : calls[q[i]].cb THEN <<>>
                       ELSE <<Entry(0, "event", "finalized", s)>>)]_vars

\* A prepared statement was finalized with two items queued, one with a
\* callback and one without: the callback got the error, no event was emitted.
C21_Witness ==
    /\ stmts[TheStmt].prepared /\ stmts[TheStmt].finalized
    /\ \E x \in Ids, y \in Ids :
          /\ calls[x].kind = "run" /\ calls[y].kind = "run"
          /\ calls[x].cb /\ ~calls[y].cb
          /\ calls[x].st = "failed" /\ calls[y].st = "failed"
          /\ \E k \in 1..Len(log) : log[k] = Entry(x, "cb", "finalized", 0)
    /\ \A k \in 1..Len(log) : log[k].ch # "event"

\* In this step the prepare of statement s completes with a failure.
PrepareFails(s) ==
    /\ calls[s].st = "inflight" /\ calls'[s].st = "done"
    /\ ~stmts'[s].prepared

\* C22: when the prepare of a statement fails, the failure is reported once
\* (to the prepare's callback, or as an error event on the statement when it
\* has none), the statement is finalized at once and never becomes prepared,
\* and every item in its queue and every item submitted later is discarded
\* without running and without a callback or an error event.
C22_PrepareFailure ==
    [][\A s \in DOMAIN stmts :
          /\ PrepareFails(s)
             => /\ stmts'[s].finalized /\ stmts'[s].queue = <<>>
                /\ NewLog = <<Entry(s, IF calls[s].cb THEN "cb" ELSE "event",
                                    "failed", IF calls[s].cb THEN 0 ELSE s)>>
                /\ \A i \in OpsOf(s) :
                      calls'[i].st = "dropped" /\ ~Started(calls'[i])
          /\ (stmts[s].finalized /\ ~stmts[s].prepared)
             => /\ stmts'[s].finalized /\ ~stmts'[s].prepared
                /\ stmts'[s].queue = <<>>
                /\ log' = log
                /\ (Submits /\ calls'[Len(calls')].stmt = s)
                   => /\ calls'[Len(calls')].st = "dropped"
                      /\ ~Started(calls'[Len(calls')])]_vars

\* The prepare failed with an item queued, and an item was submitted later:
\* both were discarded, and the log holds the failure of the prepare only.
C22_Witness ==
    /\ stmts[TheStmt].finalized /\ ~stmts[TheStmt].prepared
    /\ Len(log) = 1 /\ log[1].op = TheStmt /\ log[1].err = "failed"
    /\ \E x \in Ids, y \in Ids :
          /\ x < y
          /\ calls[x].kind = "run" /\ calls[x].cb /\ calls[x].st = "dropped"
          /\ calls[y].kind \in StmtKinds /\ calls[y].st = "dropped"
          /\ Len(calls) = MaxStmtOps

\* C23: after a statement is finalized no operation of it is started; a
\* submission to a finalized statement that had been prepared is removed from
\* the queue in the same call, its work function is not invoked, and it
\* yields one already-finalized error: to its callback, or as an error event
\* on the statement when it has none.
C23_NoStartAfterFinalize ==
    [][\A s \in DOMAIN stmts :
          stmts[s].finalized
          => /\ \A i \in 1..Len(calls') :
                   (calls'[i].kind \in StmtKinds /\ calls'[i].stmt = s
                    /\ Started(calls'[i]))
                   => i \in Ids /\ Started(calls[i])
             /\ (stmts[s].prepared /\ Submits /\ calls'[Len(calls')].stmt = s)
                => LET n == Len(calls') IN
                   /\ stmts'[s].queue = <<>>
                   /\ calls'[n].st = "failed"
                   /\ log' = Append(log,
                         IF calls'[n].cb THEN Entry(n, "cb", "finalized", 0)
                         ELSE Entry(0, "event", "finalized", s))]_vars

\* Operations were submitted to a prepared, finalized statement, one with a
\* callback and one without: each was failed with its own error.
C23_Witness ==
    /\ stmts[TheStmt].prepared /\ stmts[TheStmt].finalized
    /\ \E f \in Ids, x \in Ids, y \in Ids :
          /\ f < x /\ x < y
          /\ calls[f].kind = "finalize" /\ calls[f].st = "done"
          /\ calls[f].qpend = -1 /\ calls[f].pend = 0
          /\ calls[x].st = "failed" /\ calls[y].st = "failed"
          /\ calls[x].cb /\ ~calls[y].cb
          /\ \E k \in 1..Len(log) : log[k] = Entry(x, "cb", "finalized", 0)
          /\ log[Len(log)] = Entry(0, "event", "finalized", TheStmt)

\* C24: the finalization of a statement is terminal and happens at most once:
\* finalized never returns to false, Statement::Finalize() is entered on a
\* statement that is not finalized (at most once), whatever the finalize
\* calls and the outcome of the prepare, and the reference to the connection
\* is released once, by that entry.
C24_FinalizeOnce ==
    /\ [](\A s \in DOMAIN stmts :
             /\ stmts[s].nfin <= 1
             /\ stmts[s].finalized <=> stmts[s].nfin = 1)
    /\ [][\A s \in DOMAIN stmts : stmts[s].finalized => stmts'[s].finalized]_vars

\* Two finalize calls were queued behind the prepare: the first has run, the
\* second was failed, and Statement::Finalize() was entered once.
C24_Witness ==
    /\ stmts[TheStmt].finalized /\ stmts[TheStmt].nfin = 1
    /\ \E f \in Ids, g \in Ids :
          /\ f < g
          /\ calls[f].kind = "finalize" /\ calls[g].kind = "finalize"
          /\ calls[f].st = "done" /\ calls[g].st = "failed"


-----------------------------------------------------------------------------
\* The each operation (SpecEach).

\* The rows 1..n in the order the worker produced them.
RowsUpTo(n) == [i \in 1..n |-> i]

\* The completed callback has been called.
Fired == each.fired # <<>>

\* C25: an each with an item callback whose worker produced K rows and then
\* set completed has its item callback called exactly K times, and the count
\* passed to the completed callback is K, however the wake-ups and the swaps
\* interleave.
C25_EachDeliversAll ==
    (calls[EachId].cb /\ Fired)
        => /\ Len(each.delivered) = each.produced
           /\ each.fired[1].count = each.produced

\* C26: the rows reach the item callback in the order the worker produced
\* them, each at most once, whatever the batching.
C26_EachInOrder ==
    each.delivered = RowsUpTo(Len(each.delivered))

\* Two rows delivered out of one swap: the two wake-ups were coalesced.
C26_Witness ==
    /\ each.delivered = <<1, 2>>
    /\ each.batches = <<2>>

\* C27: the completed callback is called at most once, only after the worker
\* has set completed and with no row left in the buffer; no item callback
\* follows it.
C27_CompletedLast ==
    /\ Len(each.fired) <= 1
    /\ Fired =>
          /\ each.fired[1].completed
          /\ each.fired[1].buffered = 0
          /\ each.fired[1].count = Len(each.delivered)

\* C28: the worker never calls uv_async_send on a watcher that was closed:
\* the Async is closed and deleted only after the worker's last wake-up.
C28_NoSendAfterClose ==
    ~each.sentClosed

\* C29: the completed callback receives the error of a row stream that ended
\* with an error, and no error, with the count of delivered rows, otherwise.
C29_CompletedGetsError ==
    Fired =>
        /\ each.fired[1].err = (each.status = "error")
        /\ each.status = "done" => each.fired[1].count = Len(each.delivered)


-----------------------------------------------------------------------------
\* Serialize mode and exclusive submissions (SpecEquiv).

\* The states of the operations: the run-now-or-queue decisions taken so far
\* and the items started.
Decisions(S) == [id \in 1..Len(S.calls) |-> S.calls[id].st]

\* C30: for the same submissions and completions, the connection in serialize
\* mode and the connection whose every submission is exclusive have taken the
\* same run-now-or-queue decisions, have started the same items, hold the same
\* queue and have the same locked and pending values.
C30_SerializeIsAllExclusive ==
    /\ Decisions(State) = Decisions(twin)
    /\ queue = twin.queue
    /\ pending = twin.pending
    /\ locked = twin.locked

-----------------------------------------------------------------------------
\* C32: the operations submitted to one statement are started in submission
\* order: none is started while an operation submitted before it is still in
\* the statement queue, and a statement that is prepared, unlocked and not
\* finalized has an empty queue.
C32_StatementFifo ==
    /\ \A s \in DOMAIN stmts :
          (stmts[s].prepared /\ ~stmts[s].locked /\ ~stmts[s].finalized)
          => stmts[s].queue = <<>>
    /\ \A i \in Ids, j \in Ids :
          (/\ i < j
           /\ calls[i].kind \in StmtKinds /\ calls[j].kind \in StmtKinds
           /\ calls[i].stmt = calls[j].stmt
           /\ calls[i].st = "squeued")
          => calls[j].st = "squeued"
    /\ \A s \in DOMAIN stmts :
          \A k \in 1..(Len(stmts[s].queue) - 1) :
              stmts[s].queue[k] < stmts[s].queue[k + 1]

\* A run is in flight on a prepared statement and the run submitted after it
\* waits in the statement queue.
C32_Witness ==
    \E a \in Ids, b \in Ids :
        /\ a < b
        /\ calls[a].kind = "run" /\ calls[b].kind = "run"
        /\ calls[a].stmt = calls[b].stmt
        /\ calls[a].st = "inflight" /\ calls[b].st = "squeued"
        /\ stmts[calls[a].stmt].prepared /\ stmts[calls[a].stmt].locked
        /\ stmts[calls[a].stmt].queue = <<b>>

-----------------------------------------------------------------------------
\* C33: an exclusive connection operation (exec, loadExtension, close, wait)
\* is started, by Schedule or by Process, with locked true, open true and
\* pending = 0, and a prepare is started on an open connection: the asserts
\* of the work functions on locked, open and pending hold.
C33_BeginAssertsHold ==
    \A id \in Ids :
        Started(calls[id])
        => /\ calls[id].kind \in ExclusiveKinds
              => calls[id].lck /\ calls[id].opn /\ calls[id].pend = 0
           /\ calls[id].kind = "prepare" => calls[id].opn

\* An exec run at once by Schedule, a close started by Process out of the
\* queue, and a prepare have been started.
C33_Witness ==
    \E e \in Ids, c \in Ids, p \in Ids :
        /\ calls[e].kind = "exec" /\ calls[e].qpend = -1 /\ Started(calls[e])
        /\ calls[c].kind = "close" /\ calls[c].qpend >= 0 /\ Started(calls[c])
        /\ calls[p].kind = "prepare" /\ Started(calls[p])

-----------------------------------------------------------------------------
\* The prepares and statement operations dispatched and not completed.
Dispatched ==
    {id \in Ids : calls[id].kind \in LockingKinds /\ calls[id].st = "inflight"}

\* C35: pending is the number of prepares and statement operations dispatched
\* and not completed, and at every statement completion (STATEMENT_END, that
\* of a prepare included) the statement is locked and pending > 0.
C35_PendingCountsDispatched ==
    /\ [](pending = Cardinality(Dispatched))
    /\ [][\A id \in Ids :
             (/\ calls[id].kind \in LockingKinds
              /\ calls[id].st = "inflight" /\ calls'[id].st = "done")
             => /\ stmts[calls[id].stmt].locked
                /\ pending > 0
                /\ pending' >= 0]_vars

\* Two statements have an operation in flight each and a third operation has
\* completed.
C35_Witness ==
    /\ pending = 2
    /\ \E id \in Ids : calls[id].kind \in LockingKinds /\ calls[id].st = "done"

-----------------------------------------------------------------------------
\* In this step the finalize f of statement s is run.
RunsFinalize(s, f) ==
    /\ f \in 1..Len(calls')
    /\ calls'[f].kind = "finalize" /\ calls'[f].stmt = s
    /\ calls'[f].st = "done"
    /\ f \in Ids => calls[f].st # "done"

\* C36: a statement is finalized only by a finalize operation started on the
\* prepared, unlocked statement or by the completion handler of its failed
\* prepare, and when it is finalized none of its operations is on a worker
\* thread: an operation in flight before the handler has completed in it.
C36_NoFinalizeInFlight ==
    [][\A s \in DOMAIN stmts :
          Finalizes(s)
          => /\ \A i \in OpsOf(s) : calls'[i].st # "inflight"
             /\ ~stmts'[s].locked \/ PrepareFails(s)
             /\ \/ PrepareFails(s)
                \/ \E f \in 1..Len(calls') :
                      /\ RunsFinalize(s, f)
                      /\ stmts'[s].prepared
                      /\ \A i \in OpsOf(s) :
                            calls[i].st = "inflight" => calls'[i].st = "done"]_vars

\* A finalize submitted while a run of the statement was in flight has been
\* run after the run completed.
C36_Witness ==
    \E r \in Ids, f \in Ids :
        /\ r < f
        /\ calls[r].kind = "run" /\ calls[f].kind = "finalize"
        /\ calls[r].stmt = calls[f].stmt
        /\ calls[r].st = "done" /\ calls[f].st = "done"
        /\ stmts[calls[f].stmt].finalized
        /\ \E k \in 1..Len(log), m \in 1..Len(log) :
              /\ k < m
              /\ log[k].op = r /\ log[m].op = f

-----------------------------------------------------------------------------
\* C38: the exclusivity of a queued connection item is fixed when it is
\* queued, as its exclusive flag or the serialize mode of that moment; it is
\* not changed while the item waits, whatever the mode becomes, and the item
\* is started by the drain with locked set to it.
C38_ExclusivityFixedAtSubmission ==
    [][\A id \in 1..Len(calls') :
          /\ (id \notin Ids /\ calls'[id].qpend >= 0)
             => calls'[id].excl
                    = (calls'[id].kind \in ExclusiveKinds \/ serialize)
          /\ (id \in Ids /\ calls[id].st = "queued")
             => /\ calls'[id].excl = calls[id].excl
                /\ Started(calls'[id]) => calls'[id].lck = calls[id].excl]_vars

\* A prepare queued in serialize mode was started as exclusive in parallelize
\* mode, and a prepare queued in parallelize mode was started as
\* non-exclusive in serialize mode.
C38_Witness ==
    \E a \in Ids, b \in Ids :
        /\ calls[a].kind = "prepare" /\ calls[b].kind = "prepare"
        /\ calls[a].qpend >= 0 /\ calls[b].qpend >= 0
        /\ calls[a].excl /\ calls[a].lck /\ Started(calls[a])
        /\ ~calls[b].excl /\ ~calls[b].lck /\ Started(calls[b])

-----------------------------------------------------------------------------
\* C31: the mutex of the Async is held by the worker only around one push and
\* by the consumer only around one swap; no item callback and no completed
\* callback is invoked while the consumer holds it.
C31_MutexAroundPushOrSwap ==
    /\ ~each.cbHeld
    /\ each.mutex = "worker" <=> each.wpc = "push"
    /\ each.mutex = "consumer" <=> each.cpc = "swap"

\* The worker holds the mutex for its second row after the first row went
\* through the item callback.
C31_Witness ==
    /\ each.mutex = "worker"
    /\ each.delivered = <<1>>
    /\ each.data = <<>>

\* C40: an operation queued on the statement behind an each is not started
\* before the completed callback of the each was invoked, the last row
\* delivered.
C40_NextAfterCompleted ==
    [][\A id \in Ids :
          (/\ id > EachId
           /\ calls[id].st = "squeued"
           /\ Started(calls'[id]))
          => /\ each.donecb => Fired
             /\ calls[EachId].cb => Len(each.delivered) = each.produced]_vars

-----------------------------------------------------------------------------
\* The operations whose work function asserts the native handle.
HandleKinds == ExclusiveKinds \cup {"configure"}

\* C34: an operation whose work function needs the native handle (exec,
\* loadExtension, close, wait, configure) is started on a connection whose
\* open flag is true only while the handle is not null, however the handlers
\* interleave with a close at work on the thread pool.
C34_HandleSetAtStart ==
    [][\A id \in 1..Len(calls') :
          (/\ calls'[id].kind \in HandleKinds
           /\ id \in Ids => ~Started(calls[id])
           /\ Started(calls'[id])
           /\ calls'[id].opn)
          => handle.set]_vars

-----------------------------------------------------------------------------
\* Serialize and Parallelize with a callback (SpecMode).

\* This step enters a call of Serialize or Parallelize that has a callback.
EntersMode == Len(frames'.stack) = Len(frames.stack) + 1

\* This step is the return of the callback of such a call.
ReturnsMode == Len(frames'.stack) = Len(frames.stack) - 1

\* This step is a call of Serialize or Parallelize without a callback that
\* changes the mode.
SetsMode == frames' = frames /\ serialize' # serialize

\* C37: Serialize and Parallelize called with a callback set the mode for the
\* callback and, when it returns, restore the mode that was in force before
\* the call, nested calls included; without a callback the new mode stays.
\* Both end with a drain of the connection queue, and neither changes open,
\* locked or pending but through that drain.
C37_ModeScoped ==
    [][/\ EntersMode
          => /\ frames'.stack = Append(frames.stack, serialize)
             /\ UNCHANGED <<open, locked, pending, queue, calls>>
       /\ ReturnsMode
          => /\ serialize' = frames.stack[Len(frames.stack)]
             /\ frames'.stack = SubSeq(frames.stack, 1, Len(frames.stack) - 1)
             /\ drained'
             /\ open' = open
             /\ queue' = queue => locked' = locked /\ pending' = pending
       /\ SetsMode
          => /\ drained'
             /\ open' = open
             /\ queue' = queue => locked' = locked /\ pending' = pending]_vars

\* Two nested calls have returned and the mode is again the one in force
\* before the outer call; an item queued inside was queued as exclusive.
C37_Witness ==
    /\ frames.stack = <<>>
    /\ frames.depth = 2
    /\ ~serialize
    /\ \E id \in Ids : calls[id].kind = "prepare" /\ calls[id].excl

-----------------------------------------------------------------------------
\* No worker task is in flight and the open has succeeded: no handler will
\* run again unless the client submits something.
Quiescent ==
    /\ opening = "ok"
    /\ \A id \in Ids : calls[id].st # "inflight"

\* C39: once the open has succeeded and every dispatched task has completed,
\* no item is left in the connection queue or in a statement queue: every
\* queued item was started or failed, also after a close that failed or that
\* completed with other operations in flight.  (An item still queued when
\* nothing is in flight stays queued for ever if the client submits nothing
\* more.)
C39_NoItemLeftQueued ==
    Quiescent => \A id \in Ids : calls[id].st \notin {"queued", "squeued"}

=============================================================================
